---- MODULE Spec2Model ----
(***************************************************************************)
(* Fleet package policy service                                            *)
(* (x-pack/plugins/fleet/server/services/package_policy.ts).               *)
(*                                                                         *)
(* The service is a class of async methods over three collaborators: the   *)
(* saved-objects store (soClient), the agent policy service and the        *)
(* package registry.  Every `await` is a point where another request may   *)
(* run, so each method is modelled as a chain of steps, one per await that *)
(* reads or writes shared state.  Callers run requests concurrently.       *)
(***************************************************************************)
EXTENDS Integers, Sequences, FiniteSets, TLC

(***************************************************************************)
(* Bounds of the model.                                                    *)
(***************************************************************************)
\* Store writes (create, bulkCreate item, update) in one behaviour; the
\* store's version tokens are 1..MaxSeq.
MaxSeq == 2
\* The same in the specification of concurrent callers.
MaxSeqConcurrent == 3

(***************************************************************************)
(* Value domains.                                                          *)
(***************************************************************************)
Callers == {"c1", "c2"}

\* Saved-object ids: the pool uuid.v4() draws from and callers may name.
Ids == {"p1", "p2", "p3"}
\* options.id when the caller supplies none.
NoId == "undefined"

\* Agent policies that exist; "am" is managed.  "a0" names no agent policy.
AgentPolicies == {"a1", "a2", "am"}
is_managed(agentPolicyId) == agentPolicyId = "am"

\* packagePolicy.package?.name when the policy names no package; the packages
\* requests name are "lim", a limited package, and "reg", a regular one.
NoPackage == "undefined"

\* options.user?.username
NoUser == "undefined"

\* The version token of an update request that carries none.
NoVersion == 0

InputTypes == {"logfile", "metrics"}

\* data_stream.dataset as its dot-separated segments: "pkg.ds1", "pkg.ds2".
DS1 == <<"pkg", "ds1">>
DS2 == <<"pkg", "ds2">>

\* Variable mappings.
EmptyVars == [k \in {} |-> 0]
VarsA1 == [k \in {"a"} |-> 1]
VarsA2B3 == [k \in {"a", "b"} |-> IF k = "a" THEN 2 ELSE 3]
VarsB3 == [k \in {"b"} |-> 3]

\* An absent (undefined) compiled artifact, and a rendered one.
Absent == [kind |-> "undefined"]
Rendered(vars, template) == [kind |-> "yaml", vars |-> vars, template |-> template]
\* An artifact left on a request by an earlier compilation.
Stale == Rendered(EmptyVars, "old.yml.hbs")

\* The id of a stream that has none yet.
NoStreamId == <<>>

(***************************************************************************)
(* Sequence helpers.                                                       *)
(***************************************************************************)
Range(s) == {s[i] : i \in DOMAIN s}

Min(S) == CHOOSE x \in S : \A y \in S : x <= y

\* Array.prototype.find((x) => x[key] === value): the first such element, as a
\* 0/1-long sequence.
Find(s, key, value) ==
    LET hits == {i \in DOMAIN s : s[i][key] = value}
    IN  IF hits = {} THEN <<>> ELSE <<s[Min(hits)]>>

(***************************************************************************)
(* Package metadata (PackageInfo / RegistryPackage), owned by the registry *)
(* and read-only here.  A package is a record                              *)
(*   name, multiple (policy_templates[0].multiple),                        *)
(*   inputs        policy_templates[0].inputs: <<[type, template_path]>>,  *)
(*   has_data_streams, data_streams: <<[dataset, streams]>> with           *)
(*                 streams: <<[input, template_path]>>,                    *)
(*   assets        the registry archive: <<[dataset, dir, file, buffer]>>. *)
(***************************************************************************)
\* A template definition without a template_path.
NoPath == ""

InputAsset(file, buffer) == [dataset |-> "", dir |-> "input", file |-> file, buffer |-> buffer]
StreamAsset(ds, file, buffer) == [dataset |-> ds, dir |-> "stream", file |-> file, buffer |-> buffer]

\* A package with an input template for logfile and a stream template for
\* (pkg.ds1, logfile); metrics has a template definition without a path.
FullPackage(name, multiple) ==
    [name |-> name, multiple |-> multiple,
     inputs |-> <<[type |-> "logfile", template_path |-> "logfile.yml.hbs"],
                  [type |-> "metrics", template_path |-> NoPath]>>,
     has_data_streams |-> TRUE,
     data_streams |-> <<[dataset |-> DS1,
                         streams |-> <<[input |-> "logfile", template_path |-> "stream.yml.hbs"],
                                       [input |-> "metrics", template_path |-> NoPath]>>]>>,
     assets |-> <<InputAsset("logfile.yml.hbs", TRUE), StreamAsset("ds1", "stream.yml.hbs", TRUE)>>]

\* The same package variously broken: no input templates, no data streams,
\* assets missing or without content.
PkgInfos ==
    LET full == FullPackage("reg", TRUE)
    IN  {full,
         [full EXCEPT !.inputs = <<>>],
         [full EXCEPT !.has_data_streams = FALSE, !.data_streams = <<>>],
         [full EXCEPT !.assets = <<>>],
         [full EXCEPT !.assets = <<InputAsset("logfile.yml.hbs", FALSE),
                                   StreamAsset("ds1", "stream.yml.hbs", FALSE)>>],
         [full EXCEPT !.data_streams = <<[dataset |-> DS1, streams |-> <<>>]>>]}

\* getPackageInfo({pkgName, pkgVersion}) for the packages requests may name:
\* "lim", "reg" and any other name are full packages; the names below are
\* packages broken in one way each.
getPackageInfo(pkgName) ==
    LET full == FullPackage(pkgName, pkgName # "lim")
    IN  CASE pkgName = "inputless" -> [full EXCEPT !.inputs = <<>>]
          [] pkgName = "logfile-only" -> [full EXCEPT !.inputs = <<full.inputs[1]>>]
          [] pkgName = "streamless" ->
                [full EXCEPT !.has_data_streams = FALSE, !.data_streams = <<>>]
          [] pkgName = "undefined-streams" ->
                [full EXCEPT !.data_streams = <<[dataset |-> DS1, streams |-> <<>>]>>]
          [] pkgName = "no-input-asset" -> [full EXCEPT !.assets = <<full.assets[2]>>]
          [] pkgName = "no-stream-asset" -> [full EXCEPT !.assets = <<full.assets[1]>>]
          [] pkgName = "hollow" ->
                [full EXCEPT !.assets = <<InputAsset("logfile.yml.hbs", FALSE),
                                          StreamAsset("ds1", "stream.yml.hbs", FALSE)>>]
          [] OTHER -> full

\* isPackageLimited(pkgInfo): policy_templates[0].multiple === false.
isPackageLimited(pkgInfo) == ~pkgInfo.multiple

\* Registry.fetchInfo(name, version): the registry's record of the package.
RegistryFetchInfo(pkgInfo) == [name |-> pkgInfo.name, assets |-> pkgInfo.assets]

\* path.endsWith(suffix) for an asset's path .../dir/file: suffix is <<dir, file>>
\* or <<file>>.
PathEndsWith(asset, suffix) ==
    IF Len(suffix) = 2 THEN asset.dir = suffix[1] /\ asset.file = suffix[2]
    ELSE asset.file = suffix[1]

\* getAssetsData(registryPkg, (path) => path.endsWith(suffix), datasetPath?): the
\* assets whose path passes the filter, within the data stream's directory when
\* one is given.
getAssetsData(registryPkgInfo, suffix, datasetPath) ==
    SelectSeq(registryPkgInfo.assets,
              LAMBDA a : PathEndsWith(a, suffix) /\ (datasetPath = "" \/ a.dataset = datasetPath))

\* compileTemplate(variables, templateText): the template engine, abstracted to
\* what it was given.
compileTemplate(vars, template) == Rendered(vars, template)

\* An Object.assign whose first source wins.
ObjectAssign_firstWins(a, b) ==
    [k \in DOMAIN a \cup DOMAIN b |-> IF k \in DOMAIN a THEN a[k] ELSE b[k]]

\* Object.assign({}, a, b): b's keys override a's.
ObjectAssign(a, b) ==
    [k \in DOMAIN a \cup DOMAIN b |-> IF k \in DOMAIN b THEN b[k] ELSE a[k]]

(***************************************************************************)
(* Template compiler (package_policy.ts, lines 51-53 and 410-564).         *)
(* A compilation returns [error, value, lookups]: error is "" or the       *)
(* thrown message, lookups the template lookups and asset fetches made.    *)
(***************************************************************************)
getDataset(st) == IF Len(st) >= 2 THEN st[2] ELSE ""

Ok(value, lookups) == [error |-> "", value |-> value, lookups |-> lookups]
Throw(message, lookups) == [error |-> message, value |-> Absent, lookups |-> lookups]

\* Lines 487-495: the input template asset fetched; render it with the input's vars.
InputTemplateFetched(input, pkgInputTemplate) ==
    IF pkgInputTemplate = <<>> \/ ~pkgInputTemplate[1].buffer
    THEN Throw("Unable to load input template", {"find", "getAssetsData"})
    ELSE Ok(compileTemplate(ObjectAssign(EmptyVars, input.vars), pkgInputTemplate[1].file),
            {"find", "getAssetsData"})

\* Lines 475-485: the package's template definition looked up; fetch its asset.
InputTemplateFound(registryPkgInfo, input, packageInput) ==
    IF packageInput = <<>>
    THEN Throw("Input template not found", {"find"})
    ELSE IF packageInput[1].template_path = NoPath
    THEN Ok(Absent, {"find"})
    ELSE InputTemplateFetched(input,
             getAssetsData(registryPkgInfo, <<"input", packageInput[1].template_path>>, ""))

\* A compiler that renders the template of a disabled input too.
_compilePackagePolicyInput_disabledToo(registryPkgInfo, pkgInfo, input) ==
    IF Len(pkgInfo.inputs) = 0
    THEN Ok(Absent, {})
    ELSE InputTemplateFound(registryPkgInfo, input,
             Find(pkgInfo.inputs, "type", input.type))

\* Lines 464-474: nothing to compile for a disabled input or a package without
\* input templates; else look the input's template definition up.
_compilePackagePolicyInput(registryPkgInfo, pkgInfo, input) ==
    IF ~input.enabled \/ Len(pkgInfo.inputs) = 0
    THEN Ok(Absent, {})
    ELSE InputTemplateFound(registryPkgInfo, input,
             Find(pkgInfo.inputs, "type", input.type))

\* A compiler that renders a stream whose template asset is missing or empty.
StreamTemplateFetched_unloaded(input, stream, pkgStreamTemplate) ==
    Ok([stream EXCEPT !.compiled_stream =
            compileTemplate(ObjectAssign(input.vars, stream.vars), "")],
       {"find", "getAssetsData"})

\* Lines 549-563: the stream template asset fetched; render it with the input's
\* vars overridden by the stream's.
StreamTemplateFetched(input, stream, pkgStreamTemplate) ==
    IF pkgStreamTemplate = <<>> \/ ~pkgStreamTemplate[1].buffer
    THEN Throw("Unable to load stream template", {"find", "getAssetsData"})
    ELSE Ok([stream EXCEPT !.compiled_stream =
                 compileTemplate(ObjectAssign(input.vars, stream.vars),
                                 pkgStreamTemplate[1].file)],
            {"find", "getAssetsData"})

\* Lines 535-547: the stream definition for the input's type looked up.
StreamDefinitionFound(registryPkgInfo, stream, input, streamFromPkg) ==
    IF streamFromPkg = <<>>
    THEN Throw("Stream template not found, unable to find stream for input", {"find"})
    ELSE IF streamFromPkg[1].template_path = NoPath
    THEN Throw("Stream template path not found", {"find"})
    ELSE StreamTemplateFetched(input, stream,
             getAssetsData(registryPkgInfo, <<streamFromPkg[1].template_path>>,
                           getDataset(stream.data_stream.dataset)))

\* Lines 528-534: the package's data stream for the dataset looked up.
DataStreamFound(registryPkgInfo, stream, input, packageDataStream) ==
    IF packageDataStream = <<>>
    THEN Throw("Stream template not found, unable to find dataset", {"find"})
    ELSE StreamDefinitionFound(registryPkgInfo, stream, input,
             Find(packageDataStream[1].streams, "input", input.type))

\* Lines 510-526: a disabled stream has no compiled_stream; else the package
\* must have data streams, and the stream's dataset is looked up among them.
_compilePackageStream(registryPkgInfo, pkgInfo, input, stream) ==
    IF ~stream.enabled
    THEN Ok([stream EXCEPT !.compiled_stream = Absent], {})
    ELSE IF ~pkgInfo.has_data_streams
    THEN Throw("Stream template not found, no data streams", {})
    ELSE DataStreamFound(registryPkgInfo, stream, input,
             Find(pkgInfo.data_streams, "dataset", stream.data_stream.dataset))

\* Promise.all (lines 425, 507): the results of the tasks, all started.  The
\* call rejects if any task rejects, with the error of whichever rejected
\* first: errors holds the candidates and is empty when the call resolves.
PromiseAll(each) ==
    [errors |-> UNION {each[k].errors : k \in DOMAIN each},
     value |-> [k \in DOMAIN each |-> each[k].value],
     lookups |-> UNION {{[task |-> k, lookup |-> l] : l \in each[k].lookups}
                        : k \in DOMAIN each}]

\* One task of a Promise.all, from a compilation's [error, value, lookups].
Task(r) == [errors |-> IF r.error = "" THEN {} ELSE {r.error}, value |-> r.value,
            lookups |-> r.lookups]

_compilePackageStreams(registryPkgInfo, pkgInfo, input) ==
    PromiseAll([j \in DOMAIN input.streams |->
                   Task(_compilePackageStream(registryPkgInfo, pkgInfo, input,
                                              input.streams[j]))])

\* Lines 417-422: the streams compiled after the input's template; merge both
\* onto the input.  A lookup is [stream, op]; stream 0 is the input's own template.
StreamsCompiled(input, compiledInput, compiledStreams) ==
    [errors |-> compiledStreams.errors,
     value |-> [input EXCEPT !.compiled_input = compiledInput.value,
                             !.streams = compiledStreams.value],
     lookups |-> {[stream |-> 0, op |-> op] : op \in compiledInput.lookups}
                 \cup {[stream |-> l.task, op |-> l.lookup] : l \in compiledStreams.lookups}]

\* Lines 416-417: the input's template is awaited first; its streams are
\* compiled only once it has resolved.
InputCompiled(registryPkgInfo, pkgInfo, input, compiledInput) ==
    IF compiledInput.error # ""
    THEN [errors |-> {compiledInput.error}, value |-> input,
          lookups |-> {[stream |-> 0, op |-> op] : op \in compiledInput.lookups}]
    ELSE StreamsCompiled(input, compiledInput,
                         _compilePackageStreams(registryPkgInfo, pkgInfo, input))

\* The async callback of inputs.map (lines 415-423).
CompileOneInput(registryPkgInfo, pkgInfo, input) ==
    InputCompiled(registryPkgInfo, pkgInfo, input,
                  _compilePackagePolicyInput(registryPkgInfo, pkgInfo, input))

\* What compilePackagePolicyInputs hands back: lookups as [input, stream, op].
InputsCompiled(all) ==
    [errors |-> all.errors, value |-> all.value,
     lookups |-> {[input |-> l.task, stream |-> l.lookup.stream, op |-> l.lookup.op]
                  : l \in all.lookups}]

\* compilePackagePolicyInputs: [errors, value, lookups].  errors is empty when
\* the call resolves (to value); lookups are tagged with the input, and the
\* stream (0: the input's own template), they were made for.
compilePackagePolicyInputs(pkgInfo, inputs) ==
    InputsCompiled(
        PromiseAll([i \in DOMAIN inputs |->
                       CompileOneInput(RegistryFetchInfo(pkgInfo), pkgInfo, inputs[i])]))

\* assignStreamIdToInput: `${input.type}-${stream.data_stream.dataset}-${packagePolicyId}`.
StreamId(type, dataset, packagePolicyId) == <<type, dataset, packagePolicyId>>

assignStreamIdToInput(packagePolicyId, input) ==
    [input EXCEPT !.streams =
        [j \in DOMAIN input.streams |->
            [input.streams[j] EXCEPT !.id =
                StreamId(input.type, input.streams[j].data_stream.dataset, packagePolicyId)]]]

(***************************************************************************)
(* Requests.                                                               *)
(***************************************************************************)
Stream(id, enabled, dataset, vars, compiled) ==
    [id |-> id, enabled |-> enabled, data_stream |-> [dataset |-> dataset],
     vars |-> vars, compiled_stream |-> compiled]

Input(type, enabled, vars, streams, compiled) ==
    [type |-> type, enabled |-> enabled, vars |-> vars, streams |-> streams,
     compiled_input |-> compiled]

\* One enabled logfile input with one enabled stream on pkg.ds1, as a form
\* posts it: it compiles against every package of getPackageInfo.
InputsLog ==
    <<Input("logfile", TRUE, VarsA1,
            <<Stream(NoStreamId, TRUE, DS1, VarsA2B3, Absent)>>, Absent)>>

\* A disabled metrics input read back from another policy (its stream carries
\* that policy's stream id and stale artifacts) with an enabled stream on
\* pkg.ds2, a dataset no package defines.
InputsMetrics ==
    <<Input("metrics", FALSE, EmptyVars,
            <<Stream(StreamId("metrics", DS2, "p2"), TRUE, DS2, VarsA1, Stale)>>, Stale)>>

\* NewPackagePolicy: name, policy_id, package?.name, inputs.
NewPackagePolicy(name, policy_id, package, inputs) ==
    [name |-> name, policy_id |-> policy_id, package |-> package, inputs |-> inputs]

\* An options object; a key the caller leaves out is undefined.
Options(id, user, bump, skipUnassign) ==
    [id |-> id, user |-> user, bumpRevision |-> bump,
     skipUnassignFromAgentPolicies |-> skipUnassign]
NoOptions == Options(NoId, NoUser, "undefined", FALSE)

Request(packagePolicy, options) == [packagePolicy |-> packagePolicy, options |-> options]

\* The create requests callers make: a plain policy; the same name with a
\* limited package, under a caller-chosen id and a user; the limited package
\* again under another name, with id '' and bumpRevision false; the caller-chosen
\* id again on another agent policy; a managed and a missing agent policy; a
\* package the inputs do not compile against.
CreateRequests ==
    {Request(NewPackagePolicy("n1", "a1", NoPackage, InputsMetrics), NoOptions),
     Request(NewPackagePolicy("n1", "a1", "lim", InputsLog),
             Options("p3", "elastic", "undefined", FALSE)),
     Request(NewPackagePolicy("n2", "a1", "lim", InputsLog),
             Options("", NoUser, "false", FALSE)),
     Request(NewPackagePolicy("n2", "a2", NoPackage, InputsMetrics),
             Options("p3", "elastic", "undefined", FALSE)),
     Request(NewPackagePolicy("n1", "am", NoPackage, InputsLog), NoOptions),
     Request(NewPackagePolicy("n2", "a0", "lim", InputsLog), NoOptions),
     Request(NewPackagePolicy("n2", "a1", "reg", InputsMetrics), NoOptions)}

\* The update requests callers make, on any id, under no version token or
\* under the last token the store issued (the current token of the record
\* written last, a stale one for every other record): the plain policy; a rename with a limited package, by a user; a move to
\* another agent policy; a managed and a missing agent policy; a package the
\* inputs do not compile against.
UpdateRequests ==
    {Request(NewPackagePolicy("n1", "a1", NoPackage, InputsMetrics), NoOptions),
     Request(NewPackagePolicy("n2", "a1", "lim", InputsLog),
             Options(NoId, "elastic", "undefined", FALSE)),
     Request(NewPackagePolicy("n1", "a2", NoPackage, InputsMetrics), NoOptions),
     Request(NewPackagePolicy("n1", "am", NoPackage, InputsMetrics), NoOptions),
     Request(NewPackagePolicy("n2", "a0", NoPackage, InputsMetrics), NoOptions),
     Request(NewPackagePolicy("n2", "a1", "reg", InputsMetrics), NoOptions)}

\* The batches of bulkCreate (an item's policy_id is not used): a
\* limited-package policy twice under one name; two different policies.
BulkBatches ==
    LET A == NewPackagePolicy("n1", "a0", "lim", InputsLog)
        B == NewPackagePolicy("n2", "a1", NoPackage, InputsMetrics)
    IN  {<<A, A>>, <<A, B>>}

\* The options object of bulkCreate: {user, bumpRevision: false}.
BulkCreateOptions == {Options(NoId, "elastic", "false", FALSE)}

\* The delete requests callers make: no id; one id, left assigned
\* ({skipUnassignFromAgentPolicies: true}); two ids in either order; an id twice.
DeleteRequests ==
    {[ids |-> <<>>, options |-> NoOptions],
     [ids |-> <<"p1">>, options |-> Options(NoId, NoUser, "undefined", TRUE)],
     [ids |-> <<"p1", "p2">>, options |-> NoOptions],
     [ids |-> <<"p2", "p1">>, options |-> NoOptions],
     [ids |-> <<"p1", "p1">>, options |-> NoOptions]}

(***************************************************************************)
(* State.                                                                  *)
(***************************************************************************)
VARIABLES
    store,             \* saved objects of type package policy: id -> record
    package_policies,  \* agent policy -> the ids assigned to it
    revisions,         \* agent policy -> its revision
    seqNo,             \* the last version token the store issued
    calls,             \* caller -> the request it runs or ran last, and where it is
    updates,           \* history: id -> update calls that succeeded on the stored record
    compilation,       \* the compiler run of SpecCompile
    chain              \* the runExternalCallbacks call of SpecCallbacks

vars == <<store, package_policies, revisions, seqNo, calls, updates, compilation, chain>>

NoPolicy == [name |-> "", policy_id |-> "", package |-> NoPackage, inputs |-> <<>>]

\* A caller that has made no request.  The locals of a request are kept while
\* it runs; once it has returned or thrown (pc = "done") only its arguments'
\* keys, its outcome and its history remain.
Idle ==
    [op |-> "idle", pc |-> "idle",
     packagePolicy |-> NoPolicy, options |-> NoOptions,
     id |-> NoId, version |-> NoVersion, ids |-> <<>>,
     old |-> <<>>, inputs |-> <<>>, newSos |-> <<>>,
     result |-> <<>>, error |-> "",
     \* history of the call: collaborator calls that changed state, package
     \* installation/metadata/compilation calls, agent policies bumped
     writes |-> 0, pkgCalls |-> 0, bumps |-> <<>>,
     \* history: whether the first read saw a sibling of the requested name;
     \* the creation token of the record an update wrote to
     sawSibling |-> FALSE, born |-> 0]

\* No compilePackagePolicyInputs call.  promises and outcome are those of the
\* call taken step by step (SpecGather).
CompilationIdle == [pc |-> "idle", pkgInfo |-> FullPackage("reg", TRUE), inputs |-> <<>>,
                    result |-> [errors |-> {}, value |-> <<>>, lookups |-> {}],
                    promises |-> <<>>, outcome |-> "pending"]

\* No runExternalCallbacks call.
ChainIdle ==
    [pc |-> "idle", externalCallbackType |-> "", externalCallbacks |-> <<>>,
     newPackagePolicy |-> "", updatedNewData |-> "", running |-> 0,
     log |-> <<>>, result |-> "", error |-> ""]

Init ==
    /\ chain = ChainIdle
    /\ store = [id \in {} |-> 0]
    /\ package_policies = [a \in AgentPolicies |-> {}]
    /\ revisions = [a \in AgentPolicies |-> 1]
    /\ seqNo = 0
    /\ calls = [c \in Callers |-> Idle]
    /\ updates = [id \in Ids |-> 0]
    /\ compilation = CompilationIdle

\* A caller is free to make a request.
Free(c) == calls[c].pc \in {"idle", "done"}
Running(c) == ~Free(c)

(***************************************************************************)
(* Collaborators: saved-objects store and agent policy service.            *)
(***************************************************************************)
\* soClient.get / packagePolicyService.get (lines 207-225): the record, or
\* nothing (the store throws not-found, get returns null).
get(id) == IF id \in DOMAIN store THEN <<store[id]>> ELSE <<>>

\* agentPolicyService.get(soClient, id): the agent policy with the package
\* policies assigned to it read from the store, or nothing.
agentPolicyService_get(agentPolicyId) ==
    IF agentPolicyId \in AgentPolicies
    THEN <<[id |-> agentPolicyId, is_managed |-> is_managed(agentPolicyId),
            package_policies |->
                {store[id] : id \in package_policies[agentPolicyId] \cap DOMAIN store}]>>
    ELSE <<>>

\* doesAgentPolicyAlreadyIncludePackage(agentPolicy, pkgName)
doesAgentPolicyAlreadyIncludePackage(agentPolicy, pkgName) ==
    \E p \in agentPolicy.package_policies : p.package = pkgName

\* agentPolicyService.assignPackagePolicies(agentPolicyId, ids, {bumpRevision})
assignPackagePolicies(agentPolicyId, ids, bump) ==
    /\ package_policies' = [package_policies EXCEPT ![agentPolicyId] = @ \cup ids]
    /\ revisions' = [revisions EXCEPT ![agentPolicyId] = IF bump THEN @ + 1 ELSE @]

\* agentPolicyService.unassignPackagePolicies(agentPolicyId, ids)
unassignPackagePolicies(agentPolicyId, ids) ==
    /\ package_policies' = [package_policies EXCEPT ![agentPolicyId] = @ \ ids]
    /\ UNCHANGED revisions

\* agentPolicyService.bumpRevision(agentPolicyId)
bumpRevision(agentPolicyId) ==
    /\ revisions' = [revisions EXCEPT ![agentPolicyId] = @ + 1]
    /\ UNCHANGED package_policies

\* Ids no record, assignment or running request holds: what uuid.v4() returns.
UsedIds ==
    DOMAIN store \cup UNION {package_policies[a] : a \in AgentPolicies}
    \cup {calls[c].id : c \in {x \in Callers : Running(x)}}
    \cup UNION {Range(calls[c].ids) : c \in {x \in Callers : Running(x)}}
FreshIds == Ids \ UsedIds

\* uuid.v4(): an id nothing holds.  Ids are interchangeable, so the n fresh
\* ids a request draws are the first n unused ones of the pool.
Uuids(n) ==
    IF n = 0 THEN <<>>
    ELSE LET first == CHOOSE id \in FreshIds : TRUE
         IN  IF n = 1 THEN <<first>>
             ELSE <<first, CHOOSE id \in FreshIds \ {first} : TRUE>>

\* options?.user?.username ?? 'system'
Username(user) == IF user = NoUser THEN "system" ELSE user

\* options?.bumpRevision ?? true
BumpRevisionOption(opt) == opt # "false"

\* The request of a caller after it threw: its locals are gone; what remains
\* is the name, agent policy and package it named, the error and its history.
Thrown(call, message) ==
    [Idle EXCEPT !.op = call.op, !.pc = "done", !.error = message,
                 !.packagePolicy = [call.packagePolicy EXCEPT !.inputs = <<>>],
                 !.writes = call.writes, !.pkgCalls = call.pkgCalls, !.bumps = call.bumps,
                 !.sawSibling = call.sawSibling]

\* The request of a caller after it returned result.
Returned(call, result) ==
    [Thrown(call, "") EXCEPT !.result = result, !.options = call.options,
                             !.id = call.id, !.version = call.version]

(***************************************************************************)
(* create (lines 56-149).                                                  *)
(***************************************************************************)
\* A create that always generates the id.
PackagePolicyIdFor_generated(optionsId, uuid) == uuid

\* `options?.id || uuid.v4()` (line 82)
PackagePolicyIdFor(optionsId, uuid) == IF optionsId \in {NoId, ""} THEN uuid ELSE optionsId

\* The attributes create persists (lines 119-127).
NewAttributes(packagePolicy, inputs, user) ==
    [name |-> packagePolicy.name, policy_id |-> packagePolicy.policy_id,
     package |-> packagePolicy.package, inputs |-> inputs,
     revision |-> 1,
     created_by |-> Username(user), updated_by |-> Username(user)]

\* The saved object the store makes of attributes: its id, a version token and,
\* as history, the token it was created with.
SavedObject(id, version, attributes) ==
    [id |-> id, version |-> version, born |-> version] @@ attributes

\* A service that does not look at is_managed.
IsManaged_ignored(parentAgentPolicy) == FALSE

\* `parentAgentPolicy.is_managed` (lines 68 and 294).
IsManaged(parentAgentPolicy) == parentAgentPolicy.is_managed

\* A create that checks no sibling's name.
HasSiblingNamed_unchecked(parentAgentPolicy, name) == FALSE

\* Whether the agent policy has a package policy of that name (lines 73-77).
HasSiblingNamed(parentAgentPolicy, name) ==
    \E siblingPackagePolicy \in parentAgentPolicy.package_policies :
        siblingPackagePolicy.name = name

\* Lines 63-85: read the agent policy, check it, choose the id, assign stream ids.
create(c, packagePolicy, options) ==
    /\ Free(c)
    /\ LET parentAgentPolicy == agentPolicyService_get(packagePolicy.policy_id)
            call == [Idle EXCEPT !.op = "create", !.packagePolicy = packagePolicy,
                                 !.options = options,
                                 !.sawSibling =
                                     /\ parentAgentPolicy # <<>>
                                     /\ packagePolicy.name \in
                                            {p.name : p \in parentAgentPolicy[1].package_policies}]
        IN  IF parentAgentPolicy = <<>>
            THEN calls' = [calls EXCEPT ![c] = Thrown(call, "Agent policy not found")]
            ELSE IF IsManaged(parentAgentPolicy[1])
            THEN calls' = [calls EXCEPT ![c] =
                              Thrown(call, "Cannot add integrations to managed policy")]
            ELSE IF HasSiblingNamed(parentAgentPolicy[1], packagePolicy.name)
            THEN calls' = [calls EXCEPT ![c] =
                              Thrown(call, "There is already a package with the same name")]
            ELSE /\ options.id \in {NoId, ""} => FreshIds # {}
                 /\ LET packagePolicyId ==
                            PackagePolicyIdFor(options.id,
                                               IF FreshIds # {} THEN Uuids(1)[1] ELSE NoId)
                    IN  calls' = [calls EXCEPT ![c] =
                            [call EXCEPT
                                !.id = packagePolicyId,
                                !.inputs = [i \in DOMAIN packagePolicy.inputs |->
                                               assignStreamIdToInput(packagePolicyId,
                                                                     packagePolicy.inputs[i])],
                                !.pc = IF packagePolicy.package # NoPackage
                                       THEN "create_package" ELSE "create_so"]]
    /\ UNCHANGED <<store, package_policies, revisions, seqNo, updates, compilation, chain>>

\* Lines 87-114: ensure the package is installed, fetch its metadata, check a
\* limited package against the agent policy as it is now, compile the inputs.
create_package(c) ==
    /\ calls[c].pc = "create_package"
    /\ LET call == [calls[c] EXCEPT !.pkgCalls = @ + 1]
           packagePolicy == call.packagePolicy
           pkgInfo == getPackageInfo(packagePolicy.package)
           agentPolicy == agentPolicyService_get(packagePolicy.policy_id)
           compiled == compilePackagePolicyInputs(pkgInfo, call.inputs)
       IN  IF /\ isPackageLimited(pkgInfo)
              /\ agentPolicy # <<>>
              /\ doesAgentPolicyAlreadyIncludePackage(agentPolicy[1], pkgInfo.name)
           THEN calls' = [calls EXCEPT ![c] =
                    Thrown(call, "Unable to create package policy. Package already exists")]
           ELSE IF compiled.errors # {}
           THEN calls' = [calls EXCEPT ![c] = Thrown(call, "compile")]
           ELSE calls' = [calls EXCEPT ![c] =
                    [call EXCEPT !.pc = "create_so", !.inputs = compiled.value]]
    /\ UNCHANGED <<store, package_policies, revisions, seqNo, updates, compilation, chain>>

\* Lines 116-130: soClient.create with the chosen id; the store refuses an id
\* it already holds.
create_so(c, maxSeq) ==
    /\ calls[c].pc = "create_so"
    /\ LET call == calls[c]
           newSo == SavedObject(call.id, seqNo + 1,
                                NewAttributes(call.packagePolicy, call.inputs, call.options.user))
       IN  IF call.id \in DOMAIN store
           THEN /\ calls' = [calls EXCEPT ![c] = Thrown(call, "Saved object conflict")]
                /\ UNCHANGED <<store, seqNo, updates>>
           ELSE /\ seqNo < maxSeq
                /\ seqNo' = seqNo + 1
                /\ store' = store @@ (call.id :> newSo)
                /\ updates' = [updates EXCEPT ![call.id] = 0]
                /\ calls' = [calls EXCEPT ![c] =
                      [call EXCEPT !.pc = "create_assign", !.writes = @ + 1,
                                   !.inputs = <<>>, !.newSos = <<newSo>>]]
    /\ UNCHANGED <<package_policies, revisions, compilation, chain>>

\* Lines 132-148: assign the new object to its agent policy and return it.
create_assign(c) ==
    /\ calls[c].pc = "create_assign"
    /\ LET call == calls[c]
       IN  /\ assignPackagePolicies(call.packagePolicy.policy_id, {call.newSos[1].id},
                                    BumpRevisionOption(call.options.bumpRevision))
           /\ calls' = [calls EXCEPT ![c] =
                 Returned([call EXCEPT !.writes = @ + 1], call.newSos)]
    /\ UNCHANGED <<store, seqNo, updates, compilation, chain>>

(***************************************************************************)
(* bulkCreate (lines 151-205).                                             *)
(***************************************************************************)
\* The attributes bulkCreate gives one item (lines 171-180).
BulkAttributes(packagePolicy, packagePolicyId, agentPolicyId, user) ==
    [NewAttributes(packagePolicy,
                   [i \in DOMAIN packagePolicy.inputs |->
                       assignStreamIdToInput(packagePolicyId, packagePolicy.inputs[i])],
                   user)
        EXCEPT !.policy_id = agentPolicyId]

\* Lines 158-186: one soClient.bulkCreate of all items under fresh ids; the
\* store reports the items in `rejected` with an error, and they are filtered
\* out.  newIds[k] is the uuid of item k.
bulkCreate(c, packagePolicies, agentPolicyId, options, rejected, maxSeq) ==
    /\ Free(c)
    /\ Cardinality(FreshIds) >= Len(packagePolicies)
    /\ rejected \subseteq DOMAIN packagePolicies
    /\ LET newIds == Uuids(Len(packagePolicies))
           kept == SelectSeq([k \in DOMAIN packagePolicies |-> k],
                             LAMBDA k : k \notin rejected)
           saved_objects ==
               [n \in DOMAIN kept |->
                   SavedObject(newIds[kept[n]], seqNo + n,
                               BulkAttributes(packagePolicies[kept[n]], newIds[kept[n]],
                                              agentPolicyId, options.user))]
       IN  /\ seqNo + Len(kept) <= maxSeq
           /\ seqNo' = seqNo + Len(kept)
           /\ store' = store @@ [id \in {so.id : so \in Range(saved_objects)} |->
                                    CHOOSE so \in Range(saved_objects) : so.id = id]
           /\ updates' = [id \in Ids |->
                             IF id \in {so.id : so \in Range(saved_objects)} THEN 0
                             ELSE updates[id]]
           /\ calls' = [calls EXCEPT ![c] =
                 [Idle EXCEPT !.op = "bulkCreate", !.pc = "bulkCreate_assign",
                              !.packagePolicy = [NoPolicy EXCEPT !.policy_id = agentPolicyId],
                              !.options = options,
                              !.ids = newIds,
                              !.newSos = saved_objects,
                              !.writes = IF Len(kept) > 0 THEN 1 ELSE 0]]
    /\ UNCHANGED <<package_policies, revisions, compilation, chain>>

\* An assignment of every id drawn, persisted or not.
AssignedIds_drawn(call) == Range(call.ids)

\* newSos.map((newSo) => newSo.id) (line 192).
AssignedIds(call) == {newSo.id : newSo \in Range(call.newSos)}

\* Lines 188-204: one assignment of the surviving ids; the survivors are returned.
bulkCreate_assign(c) ==
    /\ calls[c].pc = "bulkCreate_assign"
    /\ LET call == calls[c]
       IN  /\ assignPackagePolicies(call.packagePolicy.policy_id,
                                    AssignedIds(call),
                                    BumpRevisionOption(call.options.bumpRevision))
           /\ calls' = [calls EXCEPT ![c] =
                 [Returned([call EXCEPT !.writes = @ + 1], call.newSos)
                     EXCEPT !.ids = call.ids]]
    /\ UNCHANGED <<store, seqNo, updates, compilation, chain>>

(***************************************************************************)
(* update (lines 275-342).                                                 *)
(***************************************************************************)
\* Line 282: read the stored record.
update(c, id, packagePolicy, version, options) ==
    /\ Free(c)
    /\ LET oldPackagePolicy == get(id)
           call == [Idle EXCEPT !.op = "update", !.id = id, !.packagePolicy = packagePolicy,
                                !.version = version, !.options = options,
                                !.old = oldPackagePolicy]
       IN  IF oldPackagePolicy = <<>>
           THEN calls' = [calls EXCEPT ![c] = Thrown(call, "Package policy not found")]
           ELSE calls' = [calls EXCEPT ![c] = [call EXCEPT !.pc = "update_check"]]
    /\ UNCHANGED <<store, package_policies, revisions, seqNo, updates, compilation, chain>>

\* Whether the agent policy has another package policy of that name (lines 297-302).
HasOtherSiblingNamed(parentAgentPolicy, id, name) ==
    \E siblingPackagePolicy \in parentAgentPolicy.package_policies :
        siblingPackagePolicy.id # id /\ siblingPackagePolicy.name = name

\* An update that keeps the stream ids of the request.
UpdateInputs_kept(oldPackagePolicy, restOfPackagePolicy) == restOfPackagePolicy.inputs

\* The stream ids update assigns (lines 307-309).
UpdateInputs(oldPackagePolicy, restOfPackagePolicy) ==
    [i \in DOMAIN restOfPackagePolicy.inputs |->
        assignStreamIdToInput(oldPackagePolicy.id, restOfPackagePolicy.inputs[i])]

\* Lines 289-319: read the target agent policy, check it, assign stream ids
\* and compile against the package.
update_check(c) ==
    /\ calls[c].pc = "update_check"
    /\ LET call == calls[c]
           packagePolicy == call.packagePolicy
           parentAgentPolicy == agentPolicyService_get(packagePolicy.policy_id)
           inputs == UpdateInputs(call.old[1], packagePolicy)
           compiled == compilePackagePolicyInputs(getPackageInfo(packagePolicy.package), inputs)
       IN  IF parentAgentPolicy = <<>>
           THEN calls' = [calls EXCEPT ![c] = Thrown(call, "Agent policy not found")]
           ELSE IF IsManaged(parentAgentPolicy[1])
           THEN calls' = [calls EXCEPT ![c] =
                             Thrown(call, "Cannot update integrations of managed policy")]
           ELSE IF HasOtherSiblingNamed(parentAgentPolicy[1], call.id, packagePolicy.name)
           THEN calls' = [calls EXCEPT ![c] =
                             Thrown(call, "There is already a package with the same name")]
           ELSE IF packagePolicy.package = NoPackage
           THEN calls' = [calls EXCEPT ![c] =
                             [call EXCEPT !.pc = "update_so", !.inputs = inputs]]
           ELSE IF compiled.errors # {}
           THEN calls' = [calls EXCEPT ![c] =
                             Thrown([call EXCEPT !.pkgCalls = @ + 1], "compile")]
           ELSE calls' = [calls EXCEPT ![c] =
                             [call EXCEPT !.pc = "update_so", !.pkgCalls = @ + 1,
                                          !.inputs = compiled.value]]
    /\ UNCHANGED <<store, package_policies, revisions, seqNo, updates, compilation, chain>>

\* update that passes the store no version token.
UpdateVersionOption_none(version) == NoVersion

\* The `{ version }` option update passes to the store (lines 331-333).
UpdateVersionOption(version) == version

\* The attributes update sends (lines 324-330).
UpdateAttributes(oldPackagePolicy, restOfPackagePolicy, inputs, user) ==
    [name |-> restOfPackagePolicy.name, policy_id |-> restOfPackagePolicy.policy_id,
     package |-> restOfPackagePolicy.package, inputs |-> inputs,
     revision |-> oldPackagePolicy.revision + 1,
     updated_by |-> Username(user)]

\* soClient.update merges the attributes it is given into the stored object:
\* an attribute that is undefined in the request keeps its stored value.
MergeAttributes(so, attributes, version) ==
    [so EXCEPT !.name = attributes.name, !.policy_id = attributes.policy_id,
               !.package = IF attributes.package = NoPackage THEN @ ELSE attributes.package,
               !.inputs = attributes.inputs, !.revision = attributes.revision,
               !.updated_by = attributes.updated_by, !.version = version]

\* Lines 321-334: soClient.update under the caller's version token; the store
\* refuses a missing object, and a token that is not the object's current one.
update_so(c, maxSeq) ==
    /\ calls[c].pc = "update_so"
    /\ LET call == calls[c]
           token == UpdateVersionOption(call.version)
       IN  IF call.id \notin DOMAIN store
           THEN /\ calls' = [calls EXCEPT ![c] = Thrown(call, "Saved object not found")]
                /\ UNCHANGED <<store, seqNo>>
           ELSE IF token # NoVersion /\ token # store[call.id].version
           THEN /\ calls' = [calls EXCEPT ![c] =
                      [Thrown(call, "Saved object conflict")
                          EXCEPT !.id = call.id, !.version = call.version]]
                /\ UNCHANGED <<store, seqNo>>
           ELSE /\ seqNo < maxSeq
                /\ seqNo' = seqNo + 1
                /\ store' = [store EXCEPT ![call.id] =
                      MergeAttributes(@, UpdateAttributes(call.old[1], call.packagePolicy,
                                                          call.inputs, call.options.user),
                                      seqNo + 1)]
                /\ calls' = [calls EXCEPT ![c] =
                      [call EXCEPT !.pc = "update_bump", !.writes = @ + 1, !.inputs = <<>>,
                                   !.born = store[call.id].born]]
    /\ UNCHANGED <<package_policies, revisions, updates, compilation, chain>>

\* Lines 336-339: bump the revision of the agent policy the request names.
update_bump(c) ==
    /\ calls[c].pc = "update_bump"
    /\ LET call == calls[c]
       IN  /\ bumpRevision(call.packagePolicy.policy_id)
           /\ calls' = [calls EXCEPT ![c] =
                 [call EXCEPT !.pc = "update_reload", !.writes = @ + 1,
                              !.bumps = Append(@, call.packagePolicy.policy_id)]]
    /\ UNCHANGED <<store, seqNo, updates, compilation, chain>>

\* Line 341: reload the record and return it.
update_reload(c) ==
    /\ calls[c].pc = "update_reload"
    /\ LET call == calls[c]
           reloaded == get(call.id)
       IN  IF reloaded = <<>>
           THEN /\ calls' = [calls EXCEPT ![c] = Thrown(call, "Saved object not found")]
                /\ UNCHANGED updates
           ELSE /\ calls' = [calls EXCEPT ![c] = Returned(call, reloaded)]
                /\ updates' = [updates EXCEPT ![call.id] =
                      IF reloaded[1].born = call.born THEN @ + 1 ELSE @]
    /\ UNCHANGED <<store, package_policies, revisions, seqNo, compilation, chain>>

(***************************************************************************)
(* delete (lines 344-385).                                                 *)
(***************************************************************************)
\* Line 350: the request starts with an empty result.
delete(c, ids, options) ==
    /\ Free(c)
    /\ calls' = [calls EXCEPT ![c] =
          [Idle EXCEPT !.op = "delete", !.ids = ids, !.options = options,
                       !.pc = IF ids = <<>> THEN "done" ELSE "delete_get"]]
    /\ UNCHANGED <<store, package_policies, revisions, seqNo, updates, compilation, chain>>

\* The id the loop is at: one result has been pushed for each id before it.
CurrentId(call) == call.ids[Len(call.result) + 1]

\* A loop that stops at the first id that fails.
Pushed_stopping(call, entry) ==
    LET result == Append(call.result, entry)
    IN  [call EXCEPT !.result = result, !.old = <<>>,
                     !.pc = IF Len(result) = Len(call.ids) \/ ~entry.success
                            THEN "done" ELSE "delete_get"]

\* A result pushed (lines 370-380), and where the loop goes next.
Pushed(call, entry) ==
    LET result == Append(call.result, entry)
    IN  [call EXCEPT !.result = result, !.old = <<>>,
                     !.pc = IF Len(result) = Len(call.ids) THEN "done" ELSE "delete_get"]

Succeeded(id, name) == [id |-> id, name |-> name, success |-> TRUE]
Failed(id) == [id |-> id, name |-> "", success |-> FALSE]

\* Lines 354-357: read the record of the current id.
delete_get(c) ==
    /\ calls[c].pc = "delete_get"
    /\ LET call == calls[c]
           packagePolicy == get(CurrentId(call))
       IN  IF packagePolicy = <<>>
           THEN calls' = [calls EXCEPT ![c] = Pushed(call, Failed(CurrentId(call)))]
           ELSE calls' = [calls EXCEPT ![c] =
                    [call EXCEPT !.old = packagePolicy,
                                 !.pc = IF call.options.skipUnassignFromAgentPolicies
                                        THEN "delete_so" ELSE "delete_unassign"]]
    /\ UNCHANGED <<store, package_policies, revisions, seqNo, updates, compilation, chain>>

\* Lines 358-368: unassign the record from the agent policy it names.
delete_unassign(c) ==
    /\ calls[c].pc = "delete_unassign"
    /\ LET call == calls[c]
           packagePolicy == call.old[1]
       IN  /\ unassignPackagePolicies(packagePolicy.policy_id, {packagePolicy.id})
           /\ calls' = [calls EXCEPT ![c] =
                 [call EXCEPT !.pc = "delete_so", !.writes = @ + 1]]
    /\ UNCHANGED <<store, seqNo, updates, compilation, chain>>

\* Lines 369-380: soClient.delete, then push the outcome.
delete_so(c) ==
    /\ calls[c].pc = "delete_so"
    /\ LET call == calls[c]
           id == CurrentId(call)
       IN  IF id \notin DOMAIN store
           THEN /\ calls' = [calls EXCEPT ![c] = Pushed(call, Failed(id))]
                /\ UNCHANGED store
           ELSE /\ store' = [x \in DOMAIN store \ {id} |-> store[x]]
                /\ calls' = [calls EXCEPT ![c] =
                      Pushed([call EXCEPT !.writes = @ + 1], Succeeded(id, call.old[1].name))]
    /\ UNCHANGED <<package_policies, revisions, seqNo, updates, compilation, chain>>

(***************************************************************************)
(* Specification: one caller makes any request, one after the other.       *)
(***************************************************************************)
Next ==
    \E c \in {"c1"} :
        \/ \E r \in CreateRequests : create(c, r.packagePolicy, r.options)
        \/ create_package(c)
        \/ create_so(c, MaxSeq)
        \/ create_assign(c)
        \/ \E packagePolicies \in BulkBatches, agentPolicyId \in {"a1", "am"},
              options \in BulkCreateOptions, rejected \in SUBSET {1, 2} :
              bulkCreate(c, packagePolicies, agentPolicyId, options, rejected, MaxSeq)
        \/ bulkCreate_assign(c)
        \/ \E id \in Ids, r \in UpdateRequests, version \in {NoVersion, seqNo} :
              update(c, id, r.packagePolicy, version, r.options)
        \/ update_check(c)
        \/ update_so(c, MaxSeq)
        \/ update_bump(c)
        \/ update_reload(c)
        \/ \E r \in DeleteRequests : delete(c, r.ids, r.options)
        \/ delete_get(c)
        \/ delete_unassign(c)
        \/ delete_so(c)

Spec == Init /\ [][Next]_vars

(***************************************************************************)
(* Specification: one caller makes any request, one after the other, but   *)
(* no delete request that skips the unassignment.                          *)
(***************************************************************************)
NextUnassigning ==
    \E c \in {"c1"} :
        \/ \E r \in CreateRequests : create(c, r.packagePolicy, r.options)
        \/ create_package(c)
        \/ create_so(c, MaxSeq)
        \/ create_assign(c)
        \/ \E packagePolicies \in BulkBatches, agentPolicyId \in {"a1", "am"},
              options \in BulkCreateOptions, rejected \in SUBSET {1, 2} :
              bulkCreate(c, packagePolicies, agentPolicyId, options, rejected, MaxSeq)
        \/ bulkCreate_assign(c)
        \/ \E id \in Ids, r \in UpdateRequests, version \in {NoVersion, seqNo} :
              update(c, id, r.packagePolicy, version, r.options)
        \/ update_check(c)
        \/ update_so(c, MaxSeq)
        \/ update_bump(c)
        \/ update_reload(c)
        \/ \E r \in {d \in DeleteRequests : ~d.options.skipUnassignFromAgentPolicies} :
              delete(c, r.ids, r.options)
        \/ delete_get(c)
        \/ delete_unassign(c)
        \/ delete_so(c)

SpecUnassigning == Init /\ [][NextUnassigning]_vars

(***************************************************************************)
(* Specification: two callers run requests concurrently; their steps       *)
(* interleave at every await.                                              *)
(***************************************************************************)
\* The requests concurrent callers make: create a policy of the limited
\* package; update the first record to the plain policy or rename it, under no
\* version token or any token the store has issued; delete it.
ConcurrentCreates ==
    {Request(NewPackagePolicy("n1", "a1", "lim", InputsLog), NoOptions)}
ConcurrentUpdates ==
    {Request(NewPackagePolicy("n1", "a1", NoPackage, InputsMetrics), NoOptions),
     Request(NewPackagePolicy("n2", "a1", "lim", InputsLog),
             Options(NoId, "elastic", "undefined", FALSE))}
ConcurrentDeletes == {[ids |-> <<"p1">>, options |-> NoOptions]}

NextConcurrent ==
    \E c \in Callers :
        \/ \E r \in ConcurrentCreates : create(c, r.packagePolicy, r.options)
        \/ create_package(c)
        \/ create_so(c, MaxSeqConcurrent)
        \/ create_assign(c)
        \/ \E r \in ConcurrentUpdates, version \in {NoVersion} \cup (1..seqNo) :
              update(c, "p1", r.packagePolicy, version, r.options)
        \/ update_check(c)
        \/ update_so(c, MaxSeqConcurrent)
        \/ update_bump(c)
        \/ update_reload(c)
        \/ \E r \in ConcurrentDeletes : delete(c, r.ids, r.options)
        \/ delete_get(c)
        \/ delete_unassign(c)
        \/ delete_so(c)

SpecConcurrent == Init /\ [][NextConcurrent]_vars

(***************************************************************************)
(* Specification: compilePackagePolicyInputs applied to the inputs of one  *)
(* request against one package.                                            *)
(***************************************************************************)
\* Streams of a request: enabled or not, on a dataset the package defines
\* (pkg.ds1) or not (pkg.ds2), fresh or carrying a stale artifact.
CompileStreams ==
    {Stream(NoStreamId, enabled, dataset, streamVars, compiled) :
        enabled \in BOOLEAN, dataset \in {DS1, DS2}, streamVars \in {VarsA2B3, VarsB3},
        compiled \in {Absent, Stale}}

\* Inputs of a request, with up to two streams.
CompileInputs ==
    {Input(type, enabled, VarsA1, streams, compiled) :
        type \in InputTypes, enabled \in BOOLEAN,
        streams \in {<<>>} \cup {<<st>> : st \in CompileStreams}
                    \cup {<<st, Stream(NoStreamId, FALSE, DS1, EmptyVars, Stale)>> :
                             st \in CompileStreams},
        compiled \in {Absent, Stale}}

\* The inputs of a request: one input, or a disabled logfile input followed by
\* any input.
CompileRequests ==
    {<<input>> : input \in CompileInputs}
    \cup {<<Input("logfile", FALSE, VarsA1, <<>>, Stale), input>> : input \in CompileInputs}

InitCompile ==
    /\ chain = ChainIdle
    /\ store = [id \in {} |-> 0]
    /\ package_policies = [a \in AgentPolicies |-> {}]
    /\ revisions = [a \in AgentPolicies |-> 1]
    /\ seqNo = 0
    /\ calls = [c \in Callers |-> Idle]
    /\ updates = [id \in Ids |-> 0]
    /\ \E pkgInfo \in PkgInfos, inputs \in CompileRequests :
          compilation = [CompilationIdle EXCEPT !.pc = "called", !.pkgInfo = pkgInfo,
                                                !.inputs = inputs]

\* The call runs to its outcome.
Compile ==
    /\ compilation.pc = "called"
    /\ compilation' = [compilation EXCEPT
                          !.pc = "done",
                          !.result = compilePackagePolicyInputs(compilation.pkgInfo,
                                                                compilation.inputs)]
    /\ UNCHANGED <<store, package_policies, revisions, seqNo, calls, updates, chain>>

NextCompile == Compile

SpecCompile == InitCompile /\ [][NextCompile]_vars

(***************************************************************************)
(* Specification: one compilePackagePolicyInputs call taken promise by     *)
(* promise (lines 410-426, 498-508).  compilation.promises[i] holds the    *)
(* state of the promises of input i: that of its template compilation      *)
(* (_compilePackagePolicyInput) and of each stream compilation             *)
(* (_compilePackageStream): "unstarted" (not called yet), "pending",       *)
(* "resolved" or "rejected".  Nothing cancels a pending promise.           *)
(***************************************************************************)
\* The inputs of a call: one or two inputs, each with no stream, a stream on
\* pkg.ds1, or a stream on pkg.ds1 and one on pkg.ds2.
GatherInputs ==
    {Input(type, enabled, VarsA1, streams, Absent) :
        type \in InputTypes, enabled \in BOOLEAN,
        streams \in {<<>>,
                     <<Stream(NoStreamId, TRUE, DS1, VarsB3, Absent)>>,
                     <<Stream(NoStreamId, TRUE, DS1, VarsB3, Absent),
                       Stream(NoStreamId, TRUE, DS2, VarsB3, Absent)>>}}

GatherRequests ==
    {<<a>> : a \in GatherInputs} \cup {<<a, b>> : a \in GatherInputs, b \in GatherInputs}

InitGather ==
    /\ chain = ChainIdle
    /\ store = [id \in {} |-> 0]
    /\ package_policies = [a \in AgentPolicies |-> {}]
    /\ revisions = [a \in AgentPolicies |-> 1]
    /\ seqNo = 0
    /\ calls = [c \in Callers |-> Idle]
    /\ updates = [id \in Ids |-> 0]
    /\ \E pkgInfo \in PkgInfos, inputs \in GatherRequests :
          compilation =
             [CompilationIdle EXCEPT
                 !.pc = "fetchInfo", !.pkgInfo = pkgInfo, !.inputs = inputs,
                 !.promises = [i \in DOMAIN inputs |->
                                  [input |-> "unstarted",
                                   streams |-> [j \in DOMAIN inputs[i].streams |-> "unstarted"]]]]

\* A callback that starts the stream compilations along with the template's.
CallbackCalled_together(input) ==
    [input |-> "pending", streams |-> [j \in DOMAIN input.streams |-> "pending"]]

\* Lines 415-416: the async callback of inputs.map, called: it calls
\* _compilePackagePolicyInput and awaits it; the streams are not touched yet.
CallbackCalled(input) ==
    [input |-> "pending", streams |-> [j \in DOMAIN input.streams |-> "unstarted"]]

\* The promise of one callback of inputs.map: rejected once its template
\* compilation or one of its stream compilations (Promise.all, line 507) has
\* rejected, resolved once all have resolved.
CallbackPromise(promise) ==
    IF promise.input = "rejected" \/ \E j \in DOMAIN promise.streams : promise.streams[j] = "rejected"
    THEN "rejected"
    ELSE IF promise.input = "resolved"
            /\ \A j \in DOMAIN promise.streams : promise.streams[j] = "resolved"
    THEN "resolved"
    ELSE "pending"

\* Lines 414-415: Registry.fetchInfo has resolved; inputs.map calls the callback
\* of every input in turn, each running up to its first await.
inputs_map ==
    /\ compilation.pc = "fetchInfo"
    /\ compilation' = [compilation EXCEPT
                          !.pc = "all",
                          !.promises = [i \in DOMAIN compilation.inputs |->
                                           CallbackCalled(compilation.inputs[i])]]
    /\ UNCHANGED <<store, package_policies, revisions, seqNo, calls, updates, chain>>

\* Lines 416-417 and 502-507: the template compilation of input i settles.  If
\* it resolved, the callback goes on to _compilePackageStreams, whose map calls
\* _compilePackageStream for every stream; if it rejected, the callback throws.
input_settled(i) ==
    /\ compilation.promises[i].input = "pending"
    /\ LET input == compilation.inputs[i]
           compiledInput == _compilePackagePolicyInput(RegistryFetchInfo(compilation.pkgInfo),
                                                       compilation.pkgInfo, input)
       IN  compilation' = [compilation EXCEPT
              !.promises[i] =
                 IF compiledInput.error # ""
                 THEN [@ EXCEPT !.input = "rejected"]
                 ELSE [input |-> "resolved",
                       streams |-> [j \in DOMAIN input.streams |->
                                       IF @.streams[j] = "unstarted" THEN "pending"
                                       ELSE @.streams[j]]]]
    /\ UNCHANGED <<store, package_policies, revisions, seqNo, calls, updates, chain>>

\* Lines 510-564: the compilation of stream j of input i settles.
stream_settled(i, j) ==
    /\ compilation.promises[i].streams[j] = "pending"
    /\ LET input == compilation.inputs[i]
           compiledStream == _compilePackageStream(RegistryFetchInfo(compilation.pkgInfo),
                                                   compilation.pkgInfo, input, input.streams[j])
       IN  compilation' = [compilation EXCEPT
              !.promises[i].streams[j] =
                 IF compiledStream.error # "" THEN "rejected" ELSE "resolved"]
    /\ UNCHANGED <<store, package_policies, revisions, seqNo, calls, updates, chain>>

\* Line 425: Promise.all over the callbacks' promises settles: it rejects once
\* one of them has rejected and resolves once all have resolved.
promise_all ==
    /\ compilation.pc = "all"
    /\ LET settled == {CallbackPromise(compilation.promises[i]) : i \in DOMAIN compilation.inputs}
       IN  /\ "rejected" \in settled \/ settled = {"resolved"}
           /\ compilation' = [compilation EXCEPT
                 !.pc = "settled",
                 !.outcome = IF "rejected" \in settled THEN "rejected" ELSE "resolved"]
    /\ UNCHANGED <<store, package_policies, revisions, seqNo, calls, updates, chain>>

NextGather ==
    \/ inputs_map
    \/ \E i \in DOMAIN compilation.inputs : input_settled(i)
    \/ \E i \in DOMAIN compilation.inputs :
          \E j \in DOMAIN compilation.inputs[i].streams : stream_settled(i, j)
    \/ promise_all

SpecGather == InitGather /\ [][NextGather]_vars

(***************************************************************************)
(* Specification: one caller creating and updating package policies of     *)
(* full and broken packages.                                               *)
(***************************************************************************)
\* Store writes in one behaviour of SpecPackages.
MaxSeqPackages == 2

PackageNames ==
    {"reg", "inputless", "logfile-only", "streamless", "undefined-streams",
     "no-input-asset", "no-stream-asset", "hollow"}

\* The inputs of the requests: InputsLog and InputsMetrics; a disabled logfile
\* input with an enabled stream; an enabled metrics input with an enabled
\* stream; an enabled logfile input without streams; nothing enabled; a
\* disabled input followed by InputsLog's.
PackageInputs ==
    {InputsLog,
     InputsMetrics,
     <<Input("logfile", FALSE, VarsA1, <<Stream(NoStreamId, TRUE, DS1, VarsB3, Absent)>>, Absent)>>,
     <<Input("metrics", TRUE, EmptyVars, <<Stream(NoStreamId, TRUE, DS1, VarsB3, Absent)>>, Absent)>>,
     <<Input("logfile", TRUE, VarsA1, <<>>, Absent)>>,
     <<Input("metrics", FALSE, EmptyVars, <<Stream(NoStreamId, FALSE, DS2, VarsB3, Stale)>>, Stale)>>,
     <<Input("metrics", FALSE, EmptyVars, <<>>, Absent), InputsLog[1]>>}

PackageRequests ==
    {Request(NewPackagePolicy("n1", "a1", package, inputs), NoOptions) :
        package \in PackageNames, inputs \in PackageInputs}

NextPackages ==
    \E c \in {"c1"} :
        \/ \E r \in PackageRequests : create(c, r.packagePolicy, r.options)
        \/ create_package(c)
        \/ create_so(c, MaxSeqPackages)
        \/ create_assign(c)
        \/ \E id \in {"p1"}, r \in PackageRequests :
              update(c, id, r.packagePolicy, NoVersion, r.options)
        \/ update_check(c)
        \/ update_so(c, MaxSeqPackages)
        \/ update_bump(c)
        \/ update_reload(c)

SpecPackages == Init /\ [][NextPackages]_vars

(***************************************************************************)
(* Specification: one runExternalCallbacks call (lines 428-452).  A policy *)
(* is abstracted to a tag: "p", "q", "r" are policies both schemas accept, *)
(* "q.raw" is "q" before the schema's defaults are filled in, "r.v" is "r" *)
(* with a version (the update schema accepts it and keeps it, the create   *)
(* schema rejects it), "bad" is accepted by neither.                       *)
(***************************************************************************)
ExternalCallbackTypes == {"packagePolicyCreate", "packagePolicyUpdate"}

\* The callbacks that may be registered, and what each resolves to when called
\* with a policy; "throw" is a callback that rejects.
CallbackNames == {"toQ", "advance", "withVersion", "spoil", "reject"}
Callback(name, policy) ==
    CASE name = "toQ" -> "q.raw"
      [] name = "advance" -> (CASE policy = "p" -> "q" [] policy = "q" -> "r" [] OTHER -> "bad")
      [] name = "withVersion" -> "r.v"
      [] name = "spoil" -> "bad"
      [] OTHER -> "throw"

\* NewPackagePolicySchema.validate / UpdatePackagePolicySchema.validate: the
\* validated value as a 1-long sequence, or nothing when validate throws.
SchemaValidate(externalCallbackType, result) ==
    CASE result = "bad" -> <<>>
      [] result = "q.raw" -> <<"q">>
      [] result = "r.v" -> IF externalCallbackType = "packagePolicyUpdate" THEN <<"r.v">> ELSE <<>>
      [] OTHER -> <<result>>

\* appContextService.getExternalCallbacks(type): a Set, iterated in insertion
\* order: up to three different callbacks.
RegisteredCallbacks ==
    {<<>>} \cup {<<a>> : a \in CallbackNames}
    \cup {cbs \in {<<a, b>> : a \in CallbackNames, b \in CallbackNames} : cbs[1] # cbs[2]}
    \cup {cbs \in {<<a, b, c>> : a \in CallbackNames, b \in CallbackNames, c \in CallbackNames} :
             cbs[1] # cbs[2] /\ cbs[1] # cbs[3] /\ cbs[2] # cbs[3]}

InitCallbacks ==
    /\ store = [id \in {} |-> 0]
    /\ package_policies = [a \in AgentPolicies |-> {}]
    /\ revisions = [a \in AgentPolicies |-> 1]
    /\ seqNo = 0
    /\ calls = [c \in Callers |-> Idle]
    /\ updates = [id \in Ids |-> 0]
    /\ compilation = CompilationIdle
    /\ \E externalCallbackType \in ExternalCallbackTypes,
          externalCallbacks \in RegisteredCallbacks, newPackagePolicy \in {"p", "q"} :
          chain = [ChainIdle EXCEPT !.pc = "called",
                                    !.externalCallbackType = externalCallbackType,
                                    !.externalCallbacks = externalCallbacks,
                                    !.newPackagePolicy = newPackagePolicy]

\* The callback handed the wrong policy: the call's argument, not the last
\* validated one.
CallbackArgument_original(call) == call.newPackagePolicy

\* The policy a callback is called with (line 441).
CallbackArgument(call) == call.updatedNewData

\* Lines 434-439 and 449-451: with no callback the argument is returned; else
\* the loop starts from it.
runExternalCallbacks ==
    /\ chain.pc = "called"
    /\ chain' = IF Len(chain.externalCallbacks) > 0
                THEN [chain EXCEPT !.pc = "loop",
                                   !.updatedNewData = chain.newPackagePolicy]
                ELSE [chain EXCEPT !.pc = "done", !.result = chain.newPackagePolicy]
    /\ UNCHANGED <<store, package_policies, revisions, seqNo, calls, updates, compilation>>

\* Line 441, the call: the next callback is started.  log records the call.
callback_called ==
    /\ chain.pc = "loop"
    /\ chain' = [chain EXCEPT
                    !.pc = "await",
                    !.running = @ + 1,
                    !.log = Append(@, [event |-> "called", callback |-> chain.running + 1,
                                       policy |-> CallbackArgument(chain)])]
    /\ UNCHANGED <<store, package_policies, revisions, seqNo, calls, updates, compilation>>

\* Lines 441-447 and 449-451: the callback has settled; its result is validated
\* against the schema of the kind, and the loop goes on or the call returns.
callback_settled ==
    /\ chain.pc = "await"
    /\ LET result == Callback(chain.externalCallbacks[chain.running],
                              chain.log[Len(chain.log)].policy)
           validated == SchemaValidate(chain.externalCallbackType, result)
       IN  chain' =
              IF result = "throw"
              THEN [chain EXCEPT !.pc = "done", !.error = "callback rejected"]
              ELSE IF validated = <<>>
              THEN [chain EXCEPT !.pc = "done", !.error = "validation"]
              ELSE [chain EXCEPT
                       !.updatedNewData = validated[1],
                       !.log = Append(@, [event |-> "validated", callback |-> chain.running,
                                          policy |-> validated[1]]),
                       !.pc = IF chain.running = Len(chain.externalCallbacks)
                              THEN "done" ELSE "loop",
                       !.result = IF chain.running = Len(chain.externalCallbacks)
                                  THEN validated[1] ELSE @]
    /\ UNCHANGED <<store, package_policies, revisions, seqNo, calls, updates, compilation>>

NextCallbacks ==
    \/ runExternalCallbacks
    \/ callback_called
    \/ callback_settled

SpecCallbacks == InitCallbacks /\ [][NextCallbacks]_vars

(***************************************************************************)
(* Properties.                                                             *)
(***************************************************************************)
\* C1: in every reachable state, no two stored package policies with the same
\* policy_id have the same name.
C1_NameUniqueAmongSiblings ==
    \A p \in DOMAIN store, q \in DOMAIN store :
        (p # q /\ store[p].policy_id = store[q].policy_id)
            => store[p].name # store[q].name

\* A caller is between the store write of an update of record id and its return.
UpdateInFlight(c, id) ==
    /\ calls[c].op = "update"
    /\ calls[c].pc \in {"update_bump", "update_reload"}
    /\ calls[c].id = id

\* C2: once n update calls on a package policy have succeeded since its
\* creation (and none is between its write and its return), its stored
\* revision is n+1; and each update call that succeeded called bumpRevision
\* exactly once, on the agent policy its policy_id names.
C2_RevisionCountsUpdates ==
    /\ \A id \in DOMAIN store :
          (\A c \in Callers : ~UpdateInFlight(c, id))
              => store[id].revision = updates[id] + 1
    /\ \A c \in Callers :
          (calls[c].op = "update" /\ calls[c].pc = "done" /\ calls[c].error = "")
              => calls[c].bumps = <<calls[c].packagePolicy.policy_id>>

\* Caller c made an update request on record id under version token version,
\* and the request is still known (running, returned or rejected by the store).
UpdateUnderToken(c, id, version) ==
    /\ calls[c].op = "update"
    /\ calls[c].id = id
    /\ calls[c].version = version

\* C3: of two update calls on the same package policy under the same version
\* token, at most one persists its change: once one has written, the other has
\* written nothing and bumped nothing, and when it is over it was rejected by
\* the store with a version conflict; and the step in which the store rejects a
\* stale token leaves the stored records, the assignments and the agent policy
\* revisions unchanged and ends the call without a bump.
C3_StaleUpdateRejected ==
    /\ [](\A c \in Callers, d \in Callers, id \in Ids, version \in 1..seqNo :
            (/\ c # d
             /\ UpdateUnderToken(c, id, version)
             /\ UpdateUnderToken(d, id, version)
             /\ calls[c].writes >= 1)
                => /\ calls[d].writes = 0
                   /\ calls[d].bumps = <<>>
                   /\ calls[d].pc = "done" => calls[d].error = "Saved object conflict")
    /\ [][\A c \in Callers :
            (/\ calls[c].pc = "update_so"
             /\ calls'[c].pc # "update_so"
             /\ calls[c].id \in DOMAIN store
             /\ calls[c].version # NoVersion
             /\ calls[c].version # store[calls[c].id].version)
                => /\ store' = store
                   /\ package_policies' = package_policies
                   /\ revisions' = revisions
                   /\ calls'[c].pc = "done"
                   /\ calls'[c].error = "Saved object conflict"
                   /\ calls'[c].writes = 0
                   /\ calls'[c].bumps = <<>>]_vars

\* C3 happens: two callers updated the same record under the same token; one
\* wrote and returned, the other was rejected by the store.
C3_Witness ==
    \E c \in Callers, d \in Callers, id \in Ids, version \in 1..seqNo :
        /\ c # d
        /\ UpdateUnderToken(c, id, version)
        /\ UpdateUnderToken(d, id, version)
        /\ calls[c].pc = "done" /\ calls[c].error = "" /\ calls[c].writes >= 1
        /\ calls[d].pc = "done" /\ calls[d].error = "Saved object conflict"

ManagedErrors ==
    {"Cannot add integrations to managed policy",
     "Cannot update integrations of managed policy"}

\* C4: a create call whose name is the name of a package policy already
\* attached to the target agent policy fails with a conflict error (the
\* duplicate-name error, or the managed-policy error when the agent policy is
\* managed as well), with or without a package: it makes no package call
\* (installation, metadata, compilation) and no write, and the step that fails
\* it leaves store, assignments and revisions unchanged.
C4_DuplicateNameCreateFails ==
    /\ [](\A c \in Callers :
            (calls[c].op = "create" /\ calls[c].sawSibling)
                => /\ calls[c].pc = "done"
                   /\ calls[c].error \in
                         {"There is already a package with the same name"} \cup ManagedErrors
                   /\ calls[c].error \in ManagedErrors
                         => is_managed(calls[c].packagePolicy.policy_id)
                   /\ calls[c].pkgCalls = 0
                   /\ calls[c].writes = 0)
    /\ [][\A c \in Callers :
            (Free(c) /\ calls'[c].op = "create" /\ calls'[c].sawSibling)
                => UNCHANGED <<store, package_policies, revisions>>]_vars

\* C4 happens: a create that names a package was refused for its name.
C4_Witness ==
    \E c \in Callers :
        /\ calls[c].op = "create" /\ calls[c].sawSibling
        /\ calls[c].packagePolicy.package # NoPackage
        /\ calls[c].error = "There is already a package with the same name"

\* C5: a create or update call whose target agent policy is managed fails
\* (an update of a missing record fails before the agent policy is read), and
\* no step of such a call changes the store, the assignments or a revision.
C5_ManagedPolicyRefused ==
    /\ [](\A c \in Callers :
            (/\ calls[c].op \in {"create", "update"}
             /\ is_managed(calls[c].packagePolicy.policy_id)
             /\ calls[c].pc # "update_check")
                => /\ calls[c].pc = "done"
                   /\ calls[c].error \in ManagedErrors \cup {"Package policy not found"}
                   /\ calls[c].op = "create" => calls[c].error \in ManagedErrors
                   /\ calls[c].writes = 0
                   /\ calls[c].bumps = <<>>)
    /\ [][\A c \in Callers :
            (/\ calls'[c].op \in {"create", "update"}
             /\ is_managed(calls'[c].packagePolicy.policy_id))
                => UNCHANGED <<store, package_policies, revisions>>]_vars

\* C5 happens: an update of a stored record was refused for its managed target.
C5_Witness ==
    \E c \in Callers :
        /\ calls[c].op = "update"
        /\ calls[c].error = "Cannot update integrations of managed policy"
        /\ DOMAIN store # {}

\* C6: in every reachable state, no agent policy has two package policies of
\* the same limited package.
C6_LimitedPackageSingleton ==
    \A p \in DOMAIN store, q \in DOMAIN store :
        (/\ p # q
         /\ store[p].policy_id = store[q].policy_id
         /\ store[p].package # NoPackage
         /\ store[p].package = store[q].package)
            => ~isPackageLimited(getPackageInfo(store[p].package))

\* A caller's create call has returned.
CreateReturned(c) ==
    calls[c].op = "create" /\ calls[c].pc = "done" /\ calls[c].error = ""

\* options.id is given (`||` takes undefined and '' for not given).
IdSupplied(options) == options.id \notin {NoId, ""}

\* C7: a create call that succeeds returns the record it persisted: revision
\* 1, the version token the store issued for it, the id of options.id when one
\* is supplied (a non-empty string) and otherwise a generated id that no record
\* or assignment held when it was drawn, created_by and updated_by 'system'
\* when no user is given (and the user's name otherwise).
C7_CreateReturnsPersisted ==
    /\ [](\A c \in Callers :
            CreateReturned(c)
                => /\ Len(calls[c].result) = 1
                   /\ calls[c].result[1].id \in DOMAIN store
                   /\ store[calls[c].result[1].id] = calls[c].result[1]
                   /\ calls[c].result[1].revision = 1
                   /\ calls[c].result[1].version \in 1..seqNo
                   /\ calls[c].result[1].version = calls[c].result[1].born
                   /\ calls[c].result[1].id = calls[c].id
                   /\ IdSupplied(calls[c].options)
                         => calls[c].result[1].id = calls[c].options.id
                   /\ ~IdSupplied(calls[c].options) => calls[c].result[1].id \in Ids
                   /\ calls[c].result[1].created_by =
                         (IF calls[c].options.user = NoUser THEN "system"
                          ELSE calls[c].options.user)
                   /\ calls[c].result[1].updated_by = calls[c].result[1].created_by)
    /\ [][\A c \in Callers :
            (/\ Free(c)
             /\ calls'[c].op = "create"
             /\ calls'[c].pc \in {"create_package", "create_so"}
             /\ ~IdSupplied(calls'[c].options))
                => calls'[c].id \in
                      Ids \ (DOMAIN store \cup UNION {package_policies[a] : a \in AgentPolicies})
       ]_vars

\* C7 happens: a create under a supplied id by a user has returned while another
\* record is stored.
C7_Witness ==
    \E c \in Callers :
        /\ CreateReturned(c)
        /\ IdSupplied(calls[c].options)
        /\ calls[c].options.user # NoUser
        /\ Cardinality(DOMAIN store) = 2

\* C8: every stream of every input of every stored package policy has the id
\* made of its input's type, its dataset and the id of its package policy.
C8_StreamIdsDerived ==
    \A id \in DOMAIN store :
        \A i \in DOMAIN store[id].inputs :
            \A j \in DOMAIN store[id].inputs[i].streams :
                store[id].inputs[i].streams[j].id =
                    <<store[id].inputs[i].type,
                      store[id].inputs[i].streams[j].data_stream.dataset,
                      id>>

\* C8 happens: an update has replaced the logfile input of a record by a metrics
\* input whose stream came with the id of another policy.
C8_Witness ==
    \E c \in Callers :
        /\ calls[c].op = "update" /\ calls[c].pc = "update_bump"
        /\ calls[c].id # "p2"
        /\ calls[c].old[1].inputs[1].type = "logfile"
        /\ calls[c].packagePolicy.inputs[1].streams[1].id = StreamId("metrics", DS2, "p2")
        /\ store[calls[c].id].inputs[1].type = "metrics"

\* C9: delete pushes one result per id in list order, so the result of a
\* finished call is as long as ids and its i-th entry has the i-th id; the step
\* that pushes the result of an id pushes success=false, and deletes nothing,
\* when the id is not in the store, and else deletes that record and pushes
\* success=true with its name.
C9_DeleteResultPerId ==
    /\ [](\A c \in Callers :
            calls[c].op = "delete"
                => /\ Len(calls[c].result) <= Len(calls[c].ids)
                   /\ calls[c].pc = "done" => Len(calls[c].result) = Len(calls[c].ids)
                   /\ \A i \in DOMAIN calls[c].result :
                         /\ calls[c].result[i].id = calls[c].ids[i]
                         /\ calls[c].result[i].success
                               => calls[c].result[i].id \notin DOMAIN store)
    /\ [][\A c \in Callers :
            (/\ calls[c].op = "delete" /\ calls'[c].op = "delete"
             /\ Len(calls'[c].result) = Len(calls[c].result) + 1)
                => LET id == calls[c].ids[Len(calls[c].result) + 1]
                       entry == calls'[c].result[Len(calls'[c].result)]
                   IN  /\ entry.id = id
                       /\ IF id \in DOMAIN store
                          THEN /\ entry.success
                               /\ entry.name = store[id].name
                               /\ DOMAIN store' = DOMAIN store \ {id}
                               /\ \A x \in DOMAIN store' : store'[x] = store[x]
                          ELSE /\ ~entry.success
                               /\ store' = store]_vars

\* C9 happens: a delete of two ids has failed the first and deleted the second.
C9_Witness ==
    \E c \in Callers :
        /\ calls[c].op = "delete" /\ calls[c].pc = "done"
        /\ Len(calls[c].result) = 2
        /\ ~calls[c].result[1].success
        /\ calls[c].result[2].success

\* C10: the compiler makes no lookup and no asset fetch for the template of a
\* disabled input or for a disabled stream, and when it resolves, a disabled
\* input has no compiled_input and a disabled stream no compiled_stream,
\* whatever artifacts the request carried and whatever the package defines.
C10_DisabledNotCompiled ==
    compilation.pc = "done"
        => \A i \in DOMAIN compilation.inputs :
              /\ ~compilation.inputs[i].enabled
                    => /\ \A l \in compilation.result.lookups :
                             ~(l.input = i /\ l.stream = 0)
                       /\ compilation.result.errors = {}
                             => compilation.result.value[i].compiled_input = Absent
              /\ \A j \in DOMAIN compilation.inputs[i].streams :
                    ~compilation.inputs[i].streams[j].enabled
                        => /\ \A l \in compilation.result.lookups :
                                 ~(l.input = i /\ l.stream = j)
                           /\ compilation.result.errors = {}
                                 => compilation.result.value[i].streams[j].compiled_stream
                                       = Absent

\* C10 happens: the compiler resolved for a disabled logfile input that came
\* with an artifact and has a disabled stream on pkg.ds1 that came with one,
\* against the package that defines a template for both.
C10_Witness ==
    /\ compilation.pc = "done"
    /\ compilation.pkgInfo = FullPackage("reg", TRUE)
    /\ compilation.result.errors = {}
    /\ \E i \in DOMAIN compilation.inputs :
          /\ compilation.inputs[i].type = "logfile"
          /\ ~compilation.inputs[i].enabled
          /\ compilation.inputs[i].compiled_input = Stale
          /\ \E j \in DOMAIN compilation.inputs[i].streams :
                /\ ~compilation.inputs[i].streams[j].enabled
                /\ compilation.inputs[i].streams[j].data_stream.dataset = DS1
                /\ compilation.inputs[i].streams[j].compiled_stream = Stale

\* C11: when the compiler resolves, the template of every enabled stream that
\* has one was rendered with the input's variables overridden by the stream's
\* (a key of both has the stream's value, a key of one keeps its value), and
\* the input's own template with the input's variables only.
C11_StreamVarsOverrideInputVars ==
    (compilation.pc = "done" /\ compilation.result.errors = {})
        => \A i \in DOMAIN compilation.inputs :
              /\ compilation.result.value[i].compiled_input # Absent
                    => compilation.result.value[i].compiled_input.vars
                          = compilation.inputs[i].vars
              /\ \A j \in DOMAIN compilation.inputs[i].streams :
                    compilation.inputs[i].streams[j].enabled
                        => /\ compilation.result.value[i].streams[j].compiled_stream # Absent
                           /\ DOMAIN compilation.result.value[i].streams[j].compiled_stream.vars
                                 = DOMAIN compilation.inputs[i].vars
                                      \cup DOMAIN compilation.inputs[i].streams[j].vars
                           /\ \A k \in DOMAIN compilation.inputs[i].vars
                                          \cup DOMAIN compilation.inputs[i].streams[j].vars :
                                 compilation.result.value[i].streams[j].compiled_stream.vars[k]
                                    = IF k \in DOMAIN compilation.inputs[i].streams[j].vars
                                      THEN compilation.inputs[i].streams[j].vars[k]
                                      ELSE compilation.inputs[i].vars[k]

\* C11 happens: an input with variables {a:1} and a stream with {a:2, b:3} were
\* compiled, the stream's template with {a:2, b:3} and the input's with {a:1}.
C11_Witness ==
    /\ compilation.pc = "done"
    /\ compilation.result.errors = {}
    /\ \E i \in DOMAIN compilation.inputs :
          /\ compilation.inputs[i].vars = VarsA1
          /\ compilation.result.value[i].compiled_input # Absent
          /\ compilation.result.value[i].compiled_input.vars = VarsA1
          /\ \E j \in DOMAIN compilation.inputs[i].streams :
                /\ compilation.inputs[i].streams[j].vars = VarsA2B3
                /\ compilation.result.value[i].streams[j].compiled_stream # Absent
                /\ compilation.result.value[i].streams[j].compiled_stream.vars = VarsA2B3

\* C12: runExternalCallbacks calls the registered callbacks one at a time in
\* insertion order: the log of a call alternates "called k" and "validated k"
\* for k = 1, 2, ..., so no callback is called before the one before it has
\* returned and its result has been validated; callback 1 is called with the
\* argument policy and each later one with the validated result of the one
\* before; a call that returns returns the last validated result, or the
\* argument policy when no callback is registered; and after a failure (of a
\* validation or of a callback) no later callback has been called.
C12_CallbacksChained ==
    /\ \A n \in DOMAIN chain.log :
          /\ chain.log[n].callback = (n + 1) \div 2
          /\ chain.log[n].event = (IF n % 2 = 1 THEN "called" ELSE "validated")
          /\ chain.log[n].event = "called"
                => chain.log[n].policy =
                      (IF n = 1 THEN chain.newPackagePolicy ELSE chain.log[n - 1].policy)
          /\ chain.log[n].event = "validated"
                => <<chain.log[n].policy>> =
                      SchemaValidate(chain.externalCallbackType,
                                     Callback(chain.externalCallbacks[chain.log[n].callback],
                                              chain.log[n - 1].policy))
    /\ (chain.pc = "done" /\ chain.error = "")
          => /\ Len(chain.log) = 2 * Len(chain.externalCallbacks)
             /\ chain.result = (IF chain.log = <<>> THEN chain.newPackagePolicy
                                ELSE chain.log[Len(chain.log)].policy)
    /\ (chain.pc = "done" /\ chain.error # "")
          => /\ Len(chain.log) % 2 = 1
             /\ chain.log[Len(chain.log)].event = "called"

\* C12 happens: a chain of three callbacks has returned a result that only the
\* validated outputs passed along can give ("p" to toQ, its validated "q" to
\* advance, "r" to withVersion, whose "r.v" the update schema accepts).
C12_Witness ==
    /\ chain.pc = "done" /\ chain.error = ""
    /\ chain.externalCallbacks = <<"toQ", "advance", "withVersion">>
    /\ chain.newPackagePolicy = "p"
    /\ chain.log[4].policy = "r"
    /\ chain.result = "r.v"

\* The class of the error object behind each message the service throws
\* itself: the constructor named at the throw statement.
ErrorConstructor(message) ==
    CASE message = "Cannot add integrations to managed policy" -> "IngestManagerError"
      [] message = "Cannot update integrations of managed policy" -> "IngestManagerError"
      [] message = "Unable to create package policy. Package already exists" -> "Error"
      [] message = "There is already a package with the same name" -> "Error"
      [] message = "Agent policy not found" -> "Error"
      [] message = "Package policy not found" -> "Error"
      [] OTHER -> "thrown by a collaborator"

\* C13: a call refused because the agent policy is managed, and a create call
\* refused because the agent policy already holds a package policy of the
\* limited package, fail with an IngestManagerError, while the not-found and
\* duplicate-name failures are plain Errors.
C13_DistinguishedErrorKind ==
    \A c \in Callers :
       calls[c].pc = "done" =>
          /\ (calls[c].error \in ManagedErrors
                \/ calls[c].error = "Unable to create package policy. Package already exists")
                => ErrorConstructor(calls[c].error) = "IngestManagerError"
          /\ calls[c].error \in {"There is already a package with the same name",
                                 "Agent policy not found", "Package policy not found"}
                => ErrorConstructor(calls[c].error) = "Error"

\* The step is the store write of a successful update call of caller c.
UpdateWritten(c) ==
    /\ calls[c].op = "update" /\ calls[c].pc = "update_so"
    /\ calls'[c].pc = "update_bump"

\* C14: every store write of a successful update call leaves the stored
\* revision of the record strictly greater than it was just before the write,
\* whatever other update calls run at the same time and with or without a
\* version token.
C14_RevisionStrictlyGrows ==
    [][\A c \in Callers :
          UpdateWritten(c)
             => store'[calls[c].id].revision > store[calls[c].id].revision]_vars

\* The template definition of an enabled input is not among the package's
\* (lines 475-479).
InputTemplateLookupFails(pkgInfo, input) ==
    /\ Len(pkgInfo.inputs) > 0
    /\ \A packageInput \in Range(pkgInfo.inputs) : packageInput.type # input.type

\* The template of an input has a path, but no asset with content is at it
\* (lines 485-491).
InputAssetFetchFails(pkgInfo, input) ==
    \E packageInput \in Range(pkgInfo.inputs) :
       /\ packageInput.type = input.type
       /\ packageInput.template_path # NoPath
       /\ ~\E asset \in Range(pkgInfo.assets) :
             asset.dir = "input" /\ asset.file = packageInput.template_path /\ asset.buffer

\* The package has no data streams, or none for the stream's dataset
\* (lines 519-531).
DataStreamLookupFails(pkgInfo, stream) ==
    \/ ~pkgInfo.has_data_streams
    \/ \A packageDataStream \in Range(pkgInfo.data_streams) :
          packageDataStream.dataset # stream.data_stream.dataset

\* The data stream defines no stream for the input's type, or one without a
\* template path, or one whose template asset is missing or empty
\* (lines 533-553).
StreamTemplateFails(pkgInfo, input, stream) ==
    \E packageDataStream \in Range(pkgInfo.data_streams) :
       /\ packageDataStream.dataset = stream.data_stream.dataset
       /\ \/ \A streamFromPkg \in Range(packageDataStream.streams) :
                streamFromPkg.input # input.type
          \/ \E streamFromPkg \in Range(packageDataStream.streams) :
                /\ streamFromPkg.input = input.type
                /\ \/ streamFromPkg.template_path = NoPath
                   \/ ~\E asset \in Range(pkgInfo.assets) :
                         /\ asset.file = streamFromPkg.template_path
                         /\ asset.dataset = stream.data_stream.dataset[2]
                         /\ asset.buffer

\* Some enabled input or enabled stream of the inputs cannot be compiled
\* against the package.
SomeCompilationFails(pkgInfo, inputs) ==
    \E i \in DOMAIN inputs :
       \/ /\ inputs[i].enabled
          /\ \/ InputTemplateLookupFails(pkgInfo, inputs[i])
             \/ InputAssetFetchFails(pkgInfo, inputs[i])
       \/ \E j \in DOMAIN inputs[i].streams :
             /\ inputs[i].streams[j].enabled
             /\ \/ DataStreamLookupFails(pkgInfo, inputs[i].streams[j])
                \/ StreamTemplateFails(pkgInfo, inputs[i], inputs[i].streams[j])

\* The step is the one of caller c's create or update call that compiles the
\* inputs, and the checks made before the compilation pass.
CompileStep(c) ==
    /\ calls[c].pc \in {"create_package", "update_check"}
    /\ calls'[c] # calls[c]
    /\ calls[c].packagePolicy.package # NoPackage
    /\ calls'[c].error \in {"", "compile"}

\* C15: when a create or update call reaches the compilation of its inputs and
\* an enabled input's template lookup or asset fetch, or an enabled stream's
\* data-stream lookup, stream-definition lookup, template-path check or asset
\* fetch fails, the compilation fails and so does the call; and a call that
\* fails in the compilation has written no record, made no assignment and
\* bumped no agent policy.
C15_CompileFailureWritesNothing ==
    [][\A c \in Callers :
          CompileStep(c) =>
             /\ SomeCompilationFails(getPackageInfo(calls[c].packagePolicy.package),
                                     calls[c].packagePolicy.inputs)
                   => calls'[c].pc = "done" /\ calls'[c].error = "compile"
             /\ calls'[c].error = "compile"
                   => /\ calls'[c].pc = "done"
                      /\ calls'[c].writes = 0 /\ calls'[c].bumps = <<>>
                      /\ UNCHANGED <<store, package_policies, revisions, seqNo>>]_vars

\* C15 happens: an update call on a stored package policy named a package
\* whose stream template asset is missing, failed in the compilation and left
\* the record as it was created.
C15_Witness ==
    \E c \in Callers :
       /\ calls[c].op = "update" /\ calls[c].pc = "done" /\ calls[c].error = "compile"
       /\ calls[c].packagePolicy.package = "no-stream-asset"
       /\ calls[c].writes = 0
       /\ "p1" \in DOMAIN store /\ store["p1"].revision = 1

\* C16 as claimed: within each input the template compilation runs
\* concurrently with the stream compilations: while the template compilation
\* of an input is in flight, the compilations of its streams are started too.
C16_TemplateConcurrentWithStreams ==
    \A i \in DOMAIN compilation.promises :
       compilation.promises[i].input = "pending"
          => \A j \in DOMAIN compilation.promises[i].streams :
                compilation.promises[i].streams[j] # "unstarted"

\* C16, amended: the per-input compilations run concurrently (once inputs.map
\* has run, the template compilation of every input has been started, whatever
\* has become of the others'), and the stream compilations of an input run
\* concurrently with each other (they are started together), but only after
\* the template compilation of that input has resolved: no stream compilation
\* is started while its input's template compilation is in flight, or after it
\* rejected.
C16_StreamsAfterTemplate ==
    \A i \in DOMAIN compilation.promises :
       LET promise == compilation.promises[i]
       IN  /\ compilation.pc \in {"all", "settled"} => promise.input # "unstarted"
           /\ \A j \in DOMAIN promise.streams :
                 promise.streams[j] # "unstarted" => promise.input = "resolved"
           /\ promise.input = "resolved"
                 => \A j \in DOMAIN promise.streams : promise.streams[j] # "unstarted"

\* C16 happens: of two inputs, the template compilation of the first is still
\* in flight and none of its two streams is started, while the second input's
\* template compilation has resolved and its two stream compilations are in
\* flight together.
C16_Witness ==
    /\ compilation.pc = "all"
    /\ Len(compilation.promises) = 2
    /\ compilation.promises[1] = [input |-> "pending", streams |-> <<"unstarted", "unstarted">>]
    /\ compilation.promises[2] = [input |-> "resolved", streams |-> <<"pending", "pending">>]

\* The ids a bulkCreate call of caller c drew that the store holds: the
\* records it persisted.
BulkPersisted(c) == {id \in Range(calls[c].ids) : id \in DOMAIN store}

\* C17: a bulkCreate call assigns nothing while it writes to the store, then
\* makes one assignPackagePolicies call and returns: the call adds to the
\* package policies of agentPolicyId exactly the ids of the records the store
\* persisted, and changes no other agent policy's; the call returns exactly
\* those records, as stored, each with revision 1 and policy_id agentPolicyId;
\* an item the store rejected is neither stored, nor assigned, nor returned.
C17_BulkCreateAssignsPersisted ==
    [][\A c \in Callers :
          (calls'[c].op = "bulkCreate" /\ calls'[c] # calls[c]) =>
             IF calls'[c].pc = "bulkCreate_assign"
             THEN UNCHANGED <<package_policies, revisions>>
             ELSE /\ calls[c].pc = "bulkCreate_assign" /\ calls'[c].pc = "done"
                  /\ calls'[c].error = ""
                  /\ package_policies' =
                        [package_policies EXCEPT ![calls[c].packagePolicy.policy_id] =
                            @ \cup BulkPersisted(c)]
                  /\ \A id \in Range(calls[c].ids) \ BulkPersisted(c) :
                        \A a \in AgentPolicies : id \notin package_policies'[a]
                  /\ {r.id : r \in Range(calls'[c].result)} = BulkPersisted(c)
                  /\ Len(calls'[c].result) = Cardinality(BulkPersisted(c))
                  /\ \A r \in Range(calls'[c].result) :
                        /\ r = store[r.id]
                        /\ r.revision = 1
                        /\ r.policy_id = calls[c].packagePolicy.policy_id
                  /\ UNCHANGED store]_vars

\* C17 happens: a bulkCreate call of two items, of which the store rejected
\* the first, has returned the one record persisted, which is the one assigned.
C17_Witness ==
    \E c \in Callers :
       /\ calls[c].op = "bulkCreate" /\ calls[c].pc = "done"
       /\ Len(calls[c].ids) = 2 /\ Len(calls[c].result) = 1
       /\ calls[c].ids[1] \notin DOMAIN store
       /\ calls[c].result[1].id = calls[c].ids[2]
       /\ calls[c].ids[2] \in package_policies[calls[c].packagePolicy.policy_id]
       /\ calls[c].ids[1] \notin package_policies[calls[c].packagePolicy.policy_id]

\* C18: when every call made so far has completed (and no delete skipped the
\* unassignment), the stored package policies are the assigned ones: a stored
\* record is in the package policies of the agent policy its policy_id names
\* and of no other, and every id in an agent policy's package policies is the
\* id of a stored record.
C18_StoredIffAssigned ==
    (\A c \in Callers : Free(c)) =>
       /\ \A id \in DOMAIN store :
             /\ store[id].policy_id \in AgentPolicies
             /\ \A a \in AgentPolicies :
                   id \in package_policies[a] <=> a = store[id].policy_id
       /\ \A a \in AgentPolicies : package_policies[a] \subseteq DOMAIN store

====
